---- MODULE Spec2Model ----
\* The OCR bridge of yuque-chrome-extension (OCRManager): a hidden iframe, a
\* message listener that correlates response envelopes with pending requests
\* by request id, a 30 s initialization timer, and the startOCR pipeline; and
\* the lake editor component, which hosts a third-party editor in an iframe
\* and adapts it to a value/onChange pair and an imperative content API.
EXTENDS Integers, Sequences, FiniteSets, TLC

\* ---------------------------------------------------------------- bounds
\* Number of calls (init or startOCR) made on the ocrManager singleton; they
\* may overlap in any way.
NCallers == 2
\* Largest requestId an incoming message carries (0: an id never allocated).
MaxReqId == 2
\* Longest region list of a "startOcr" response given to the result processing.
MaxRegions == 3
\* Largest finite coordinate of a region in those lists.
MaxCoord == 1
\* Number of calls made under the fair schedule.
NLive == 1
\* Number of distinct non-empty html strings given to the editor component.
NValues == 1
\* Number of distinct onChange callbacks given to the editor component.
NCallbacks == 2

Callers == 1..NCallers

\* ---------------------------------------------------------------- JS values
Undefined == [t |-> "undefined"]
Bool(b) == [t |-> "boolean", b |-> b]
Obj(e) == [t |-> "object", o |-> e]
Arr(s) == [t |-> "array", a |-> s]
\* a local that has not been assigned yet
None == [t |-> "none"]
\* a promise that is not settled yet
Pending == [t |-> "pending"]
\* no promise has been created
NoPromise == [t |-> "nopromise"]

NaN == [nan |-> TRUE]
Num(n) == [n |-> n]
Infinity == [inf |-> 1]
NegInfinity == [inf |-> -1]
\* a null entry of a region list
Null == [t |-> "null"]
Region(x, y) == [x |-> x, y |-> y]

\* JavaScript truthiness of the values above: every object and array is truthy.
Truthy(v) ==
  CASE v.t = "boolean" -> v.b
    [] v.t \in {"object", "array"} -> TRUE
    [] OTHER -> FALSE

\* ---------------------------------------------------------------- messages
key == "ocr-message"
Keys == {key, "other"}
\* the data of a response: a falsy flag, or a region list (a truthy value)
Payloads ==
  { Bool(FALSE),
    Arr(<<Region(Num(5), Num(10)), Region(Num(1), Num(10)), Region(NaN, Num(3))>>) }

\* event.data of a MessageEvent dispatched to the window. Any window can post
\* any message: responses with every requestId and payload, and ready messages
\* with every requestId, under the bridge's key or under another one.
Envelopes ==
  [key : {key}, requestId : 0..MaxReqId, type : {"result"}, data : Payloads]
  \cup [key : Keys, requestId : 0..MaxReqId, type : {"ocr-ready"}, data : {Bool(TRUE)}]
\* the last step did not dispatch a message event
NoEvent == [t |-> "none"]

VARIABLES
  iframe,          \* this.iframe is set
  frames,          \* number of iframe elements appended to document.body
  listeners,       \* number of 'message' listeners registered on window
  timer,           \* the setTimeout of init: "none", "armed", "fired"
  initPromise,     \* the promise created by init: NoPromise, Pending or its value
  sendMessageRef,  \* this.sendMessageRef is installed
  id,              \* the counter of getRequestID
  resolveCache,    \* requestId -> the promise its callback resolves
  promises,        \* the promises created by sendMessageRef, in creation order
  invoked,         \* per promise: how often its resolveCache callback was invoked
  posted,          \* the messages posted into the frame, in order
  event,           \* the message event dispatched in the last step, or NoEvent
  pc, op, wait,    \* per call: position, method called, the awaited promise
  isReady, res, result  \* per call: locals of startOCR and the value returned

vars == <<iframe, frames, listeners, timer, initPromise, sendMessageRef, id,
          resolveCache, promises, invoked, posted, event, pc, op, wait,
          isReady, res, result>>
bridge == <<iframe, frames, listeners, timer, initPromise, sendMessageRef>>
table == <<id, resolveCache, promises, invoked, posted>>
locals == <<isReady, res, result>>

\* ---------------------------------------------------------------- promises
\* resolve(v) settles a pending promise and is a no-op on a settled one
ResolveM(p, v) == v
Resolve(p, v) == IF p = Pending THEN v ELSE p

\* what a call awaits
Value(v) == [k |-> "value", v |-> v]
InitWait == [k |-> "init"]
PromiseWait(p) == [k |-> "promise", p |-> p]
NoWait == [k |-> "none"]

Settled(w) ==
  CASE w.k = "value" -> TRUE
    [] w.k = "init" -> initPromise.t \notin {"pending", "nopromise"}
    [] w.k = "promise" -> promises[w.p].value # Pending
    [] OTHER -> FALSE

Awaited(w) ==
  CASE w.k = "value" -> w.v
    [] w.k = "init" -> initPromise
    [] OTHER -> promises[w.p].value

\* a continuation that can run: the microtask queue is not empty
Runnable(c) == pc[c] \in {"awaitInit", "awaitIsReady", "awaitOcr"} /\ Settled(wait[c])
\* timers and message events are macrotasks: they run when no microtask is left
TaskBoundary == \A c \in Callers : ~Runnable(c)

\* ---------------------------------------------------------------- request ids
getRequestIDM(n) == IF n >= 1 THEN n ELSE n + 1
getRequestID(n) == n + 1

\* ---------------------------------------------------------------- sendMessage
\* the transport installed by a ready envelope: allocate an id, record the
\* callback, post the request into the frame
sendMessageRefCall(c, action) ==
  LET requestId == getRequestID(id) IN
  /\ id' = requestId
  /\ promises' = Append(promises,
        [caller |-> c, action |-> action, requestId |-> requestId, value |-> Pending])
  /\ invoked' = Append(invoked, 0)
  /\ resolveCache' =
        [k \in DOMAIN resolveCache \cup {requestId} |->
            IF k = requestId THEN Len(promises) + 1 ELSE resolveCache[k]]
  /\ posted' = Append(posted, [key |-> key, requestId |-> requestId, action |-> action])
  /\ wait' = [wait EXCEPT ![c] = PromiseWait(Len(promises) + 1)]

NoTransportM == FALSE
NoTransport == ~sendMessageRef

sendMessageM(c, action) ==
  IF NoTransport
  THEN /\ wait' = [wait EXCEPT ![c] = Value(Undefined)]
       /\ id' = getRequestID(id)
       /\ UNCHANGED <<resolveCache, promises, invoked, posted>>
  ELSE sendMessageRefCall(c, action)
sendMessage(c, action) ==
  IF NoTransport
  THEN /\ wait' = [wait EXCEPT ![c] = Value(Undefined)]
       /\ UNCHANGED table
  ELSE sendMessageRefCall(c, action)

\* ---------------------------------------------------------------- init
IframeExistsM == FALSE
IframeExists == iframe

\* the synchronous body of init, run by call c
initBody(c) ==
  IF IframeExists
  THEN /\ wait' = [wait EXCEPT ![c] = Value(Undefined)]
       /\ UNCHANGED bridge
  ELSE /\ iframe' = TRUE
       /\ frames' = frames + 1
       /\ listeners' = listeners + 1
       /\ timer' = "armed"
       /\ initPromise' = Pending
       /\ wait' = [wait EXCEPT ![c] = InitWait]
       /\ UNCHANGED sendMessageRef

\* ocrManager.init() called directly
init(c) ==
  /\ pc[c] = "idle"
  /\ initBody(c)
  /\ op' = [op EXCEPT ![c] = "init"]
  /\ pc' = [pc EXCEPT ![c] = "awaitInit"]
  /\ event' = NoEvent
  /\ UNCHANGED <<table, locals>>

\* the caller of init() receives the value of the promise
initReturn(c) ==
  /\ pc[c] = "awaitInit" /\ op[c] = "init" /\ Settled(wait[c])
  /\ result' = [result EXCEPT ![c] = Awaited(wait[c])]
  /\ pc' = [pc EXCEPT ![c] = "done"]
  /\ wait' = [wait EXCEPT ![c] = NoWait]
  /\ event' = NoEvent
  /\ UNCHANGED <<bridge, table, op, isReady, res>>

\* the timer callback: resolve(false)
timeoutM ==
  /\ timer = "armed"
  /\ TaskBoundary
  /\ timer' = "fired"
  /\ event' = NoEvent
  /\ UNCHANGED <<iframe, frames, listeners, initPromise, sendMessageRef, table,
                 pc, op, wait, locals>>
timeout ==
  /\ timer = "armed"
  /\ TaskBoundary
  /\ timer' = "fired"
  /\ initPromise' = Resolve(initPromise, Bool(FALSE))
  /\ event' = NoEvent
  /\ UNCHANGED <<iframe, frames, listeners, sendMessageRef, table, pc, op, wait, locals>>

\* ---------------------------------------------------------------- messageFunc
AcceptedM(e) == TRUE
Accepted(e) == e.key = key

LookupM(cache, requestId) ==
  cache[CHOOSE k \in DOMAIN cache : \A j \in DOMAIN cache : k <= j]
Lookup(cache, requestId) == cache[requestId]

DeleteM(cache, requestId) == cache
DeleteAllM(cache, requestId) == <<>>
Delete(cache, requestId) == [k \in DOMAIN cache \ {requestId} |-> cache[k]]

messageFunc(e) ==
  /\ listeners > 0
  /\ TaskBoundary
  /\ event' = e
  /\ IF ~Accepted(e)
     THEN UNCHANGED <<bridge, table, pc, op, wait, locals>>
     ELSE /\ IF e.requestId \in DOMAIN resolveCache
             THEN LET p == Lookup(resolveCache, e.requestId) IN
                  /\ promises' = [promises EXCEPT ![p].value = Resolve(@, Obj(e))]
                  /\ invoked' = [invoked EXCEPT ![p] = @ + 1]
                  /\ resolveCache' = Delete(resolveCache, e.requestId)
             ELSE UNCHANGED <<promises, invoked, resolveCache>>
          /\ IF e.type = "ocr-ready"
             THEN /\ sendMessageRef' = TRUE
                  /\ initPromise' = Resolve(initPromise, Bool(TRUE))
             ELSE UNCHANGED <<sendMessageRef, initPromise>>
          /\ UNCHANGED <<iframe, frames, listeners, timer, id, posted,
                         pc, op, wait, locals>>

\* ---------------------------------------------------------------- isWebOcrReady
isWebOcrReady(c) == sendMessage(c, "isWebOcrReady")

\* ---------------------------------------------------------------- startOCR
\* the value startOCR returns when the readiness check fails
NotReadyResultM == Undefined
NotReadyResult == Arr(<<>>)

IsNaN(v) == v = NaN

\* item.x of a null entry raises a TypeError inside the filter callback
Throws(s) == \E i \in DOMAIN s : s[i] = Null

RECURSIVE Filter(_)
Filter(s) ==
  IF s = <<>> THEN <<>>
  ELSE LET rest == Filter(Tail(s)) IN
       IF ~IsNaN(Head(s).x) /\ ~IsNaN(Head(s).y) THEN <<Head(s)>> \o rest ELSE rest

IsFinite(v) == "n" \in DOMAIN v

\* a - b on numbers that are not NaN
Sub(a, b) ==
  CASE IsFinite(a) /\ IsFinite(b) -> Num(a.n - b.n)
    [] ~IsFinite(a) /\ ~IsFinite(b) -> IF a = b THEN NaN ELSE a
    [] ~IsFinite(a) -> a
    [] OTHER -> [inf |-> 0 - b.inf]

\* the comparator of the sort
CompareM(a, b) == IF a.x # b.x THEN Sub(a.x, b.x) ELSE Sub(a.y, b.y)
Compare(a, b) == IF a.y # b.y THEN Sub(a.y, b.y) ELSE Sub(a.x, b.x)

\* sort places a before b when the comparator's value is below zero; NaN counts as 0
Negative(v) == IF IsFinite(v) THEN v.n < 0 ELSE v = NegInfinity

RECURSIVE Insert(_, _)
Insert(s, r) ==
  IF s = <<>> THEN <<r>>
  ELSE IF Negative(Compare(r, Head(s))) THEN <<r>> \o s
       ELSE <<Head(s)>> \o Insert(Tail(s), r)

RECURSIVE Sort(_)
Sort(s) == IF s = <<>> THEN <<>> ELSE Insert(Sort(SubSeq(s, 1, Len(s) - 1)), s[Len(s)])

\* res?.data || []
OcrResult(r) == IF r.t = "object" /\ Truthy(r.o.data) THEN r.o.data ELSE Arr(<<>>)

\* the empty catch block: the function ends without a return value
CatchResultM == [t |-> "throw"]
CatchResult == Undefined

\* the try block: a value that is no array has no filter method and a null
\* entry has no x; the TypeError is swallowed
Normalize(r) ==
  LET ocrResult == OcrResult(r) IN
  IF ocrResult.t = "array" /\ ~Throws(ocrResult.a)
  THEN Arr(Sort(Filter(ocrResult.a)))
  ELSE CatchResult

\* startOCR up to `await this.init()`
startOCR(c) ==
  /\ pc[c] = "idle"
  /\ initBody(c)
  /\ op' = [op EXCEPT ![c] = "startOCR"]
  /\ pc' = [pc EXCEPT ![c] = "awaitInit"]
  /\ event' = NoEvent
  /\ UNCHANGED <<table, locals>>

\* after init: `await ocrManager.isWebOcrReady()`
startOCRCheckReady(c) ==
  /\ pc[c] = "awaitInit" /\ op[c] = "startOCR" /\ Settled(wait[c])
  /\ isWebOcrReady(c)
  /\ pc' = [pc EXCEPT ![c] = "awaitIsReady"]
  /\ event' = NoEvent
  /\ UNCHANGED <<bridge, op, locals>>

\* after the readiness check: return [] or `await this.sendMessage('startOcr')`
startOCRRequest(c) ==
  /\ pc[c] = "awaitIsReady" /\ op[c] = "startOCR" /\ Settled(wait[c])
  /\ isReady' = [isReady EXCEPT ![c] = Awaited(wait[c])]
  /\ IF ~Truthy(Awaited(wait[c]))
     THEN /\ result' = [result EXCEPT ![c] = NotReadyResult]
          /\ pc' = [pc EXCEPT ![c] = "done"]
          /\ wait' = [wait EXCEPT ![c] = NoWait]
          /\ UNCHANGED table
     ELSE /\ sendMessage(c, "startOcr")
          /\ pc' = [pc EXCEPT ![c] = "awaitOcr"]
          /\ UNCHANGED result
  /\ event' = NoEvent
  /\ UNCHANGED <<bridge, op, res>>

\* after the response: filter, sort, return
startOCRReturn(c) ==
  /\ pc[c] = "awaitOcr" /\ Settled(wait[c])
  /\ res' = [res EXCEPT ![c] = Awaited(wait[c])]
  /\ result' = [result EXCEPT ![c] = Normalize(Awaited(wait[c]))]
  /\ pc' = [pc EXCEPT ![c] = "done"]
  /\ wait' = [wait EXCEPT ![c] = NoWait]
  /\ event' = NoEvent
  /\ UNCHANGED <<bridge, table, op, isReady>>

\* ---------------------------------------------------------------- specification
\* ---------------------------------------------------------------- lake editor
\* html strings; 0 is the empty string
Html == 0..NValues
\* onChange callbacks; 0 is undefined
Callbacks == 0..NCallbacks
Str(h) == [t |-> "string", s |-> h]
\* no setDocument call has been made
NoDocument == [by |-> "none"]

VARIABLES
  source,       \* the window that posted the message dispatched in the last step
  frame,        \* the component's iframe: "none" (not rendered), "loading", "loaded"
  listening,    \* loadFunc is registered for the iframe's load event
  lake,         \* loadLakeEditor(win): "none", "pending", "done"
  newEditor,    \* createOpenEditor has returned; its contentchange handler is on
  queued,       \* setEditor(newEditor) is waiting for the next render
  editor,       \* the editor state of the committed render is not null
  value,        \* props.value of the committed render
  onChange,     \* props.onChange of the committed render
  contextRef,   \* contextRef.current.onChange
  effects,      \* the committed render's effects that have not run yet, in order
  setDocument,  \* the last call of editor.setDocument: its html and its caller
  entry,        \* what ran in the last step: a method of the handle or an event
  methods,      \* the methods of the third-party editor invoked in the last step
  called,       \* the onChange callback invoked in the last step, 0 if none
  returned      \* the value the handle's method returned in the last step

component == <<frame, listening, lake, newEditor, queued, editor, value, onChange,
               contextRef, effects, setDocument>>
observed == <<entry, methods, called, returned>>
allvars == <<vars, source, component, observed>>

NoSource == "none"

\* the component has not been rendered
Unmounted ==
  /\ frame = "none"
  /\ listening = FALSE
  /\ lake = "none"
  /\ newEditor = FALSE
  /\ queued = FALSE
  /\ editor = FALSE
  /\ value = 0
  /\ onChange = 0
  /\ contextRef = 0
  /\ effects = <<>>
  /\ setDocument = NoDocument
  /\ entry = "none"
  /\ methods = <<>>
  /\ called = 0
  /\ returned = None

\* a step in which no method of the handle and no editor event runs
Internal ==
  /\ entry' = "none"
  /\ methods' = <<>>
  /\ called' = 0
  /\ returned' = None

\* the effects of a render whose dependencies differ from the previous render's
ChangedEffectsM(editor1, v, cb) ==
  (IF v # value THEN <<"setDocument">> ELSE <<>>)
  \o (IF cb # onChange THEN <<"onChange">> ELSE <<>>)
ChangedEffects(editor1, v, cb) ==
  (IF editor1 # editor \/ v # value THEN <<"setDocument">> ELSE <<>>)
  \o (IF cb # onChange THEN <<"onChange">> ELSE <<>>)

\* the first render: every effect is scheduled, contextRef holds props.onChange
mount(v, cb) ==
  /\ frame = "none"
  /\ frame' = "loading"
  /\ value' = v
  /\ onChange' = cb
  /\ contextRef' = cb
  /\ effects' = <<"addEventListener", "setDocument", "onChange">>
  /\ Internal
  /\ UNCHANGED <<listening, lake, newEditor, queued, editor, setDocument>>

\* A later render, by new props of the parent or by the queued setEditor (then
\* v and cb are the props as they are); React runs the pending effects of the
\* previous render before it renders again.
render(v, cb) ==
  /\ frame # "none"
  /\ effects = <<>>
  /\ editor' = (editor \/ queued)
  /\ queued' = FALSE
  /\ value' = v
  /\ onChange' = cb
  /\ effects' = ChangedEffects(editor \/ queued, v, cb)
  /\ Internal
  /\ UNCHANGED <<frame, listening, lake, newEditor, contextRef, setDocument>>

\* the next pending effect runs
runEffect ==
  /\ effects # <<>>
  /\ effects' = Tail(effects)
  /\ entry' = "none"
  /\ called' = 0
  /\ returned' = None
  /\ CASE Head(effects) = "addEventListener" ->
            /\ listening' = TRUE
            /\ methods' = <<>>
            /\ UNCHANGED <<contextRef, setDocument>>
       [] Head(effects) = "setDocument" ->
            /\ IF editor
               THEN /\ setDocument' = [html |-> value, by |-> "effect"]
                    /\ methods' = <<"setDocument">>
               ELSE /\ methods' = <<>>
                    /\ UNCHANGED setDocument
            /\ UNCHANGED <<listening, contextRef>>
       [] Head(effects) = "onChange" ->
            /\ contextRef' = onChange
            /\ methods' = <<>>
            /\ UNCHANGED <<listening, setDocument>>
  /\ UNCHANGED <<frame, lake, newEditor, queued, editor, value, onChange>>

\* the iframe's load event; loadFunc runs if it has been registered
load ==
  /\ frame = "loading"
  /\ frame' = "loaded"
  /\ lake' = IF listening THEN "pending" ELSE lake
  /\ Internal
  /\ UNCHANGED <<listening, newEditor, queued, editor, value, onChange,
                 contextRef, effects, setDocument>>

\* loadLakeEditor(win) is fulfilled: the editor is created, its contentchange
\* handler registered, and setEditor(newEditor) queued
loadFunc ==
  /\ lake = "pending"
  /\ lake' = "done"
  /\ newEditor' = TRUE
  /\ queued' = TRUE
  /\ Internal
  /\ UNCHANGED <<frame, listening, editor, value, onChange, contextRef, effects,
                 setDocument>>

\* the editor emits contentchange
contentchange ==
  /\ newEditor
  /\ entry' = "contentchange"
  /\ called' = contextRef
  /\ methods' = IF contextRef # 0 THEN <<"getDocument">> ELSE <<>>
  /\ returned' = None
  /\ UNCHANGED component

\* ---- the handle given to the parent
appendContent(breakLine) ==
  /\ frame # "none"
  /\ entry' = "appendContent"
  /\ methods' = IF ~editor THEN <<>>
                ELSE (IF breakLine THEN <<"execCommand">> ELSE <<>>)
                     \o <<"kernel.execCommand", "execCommand">>
  /\ called' = 0
  /\ returned' = Undefined
  /\ UNCHANGED component

setContentM(html) ==
  /\ frame # "none"
  /\ entry' = "setContent"
  /\ methods' = <<"setDocument", "execCommand">>
  /\ setDocument' = [html |-> html, by |-> "setContent"]
  /\ called' = 0
  /\ returned' = Undefined
  /\ UNCHANGED <<frame, listening, lake, newEditor, queued, editor, value, onChange,
                 contextRef, effects>>
setContent(html) ==
  /\ frame # "none"
  /\ entry' = "setContent"
  /\ IF ~editor
     THEN /\ methods' = <<>>
          /\ UNCHANGED setDocument
     ELSE /\ methods' = <<"setDocument", "execCommand">>
          /\ setDocument' = [html |-> html, by |-> "setContent"]
  /\ called' = 0
  /\ returned' = Undefined
  /\ UNCHANGED <<frame, listening, lake, newEditor, queued, editor, value, onChange,
                 contextRef, effects>>

\* with an editor the answer is the third-party editor's
isEmpty ==
  /\ frame # "none"
  /\ entry' = "isEmpty"
  /\ IF ~editor
     THEN methods' = <<>> /\ returned' = Bool(TRUE)
     ELSE methods' = <<"queryCommandValue">> /\ returned' \in {Bool(FALSE), Bool(TRUE)}
  /\ called' = 0
  /\ UNCHANGED component

getContent ==
  /\ frame # "none"
  /\ entry' = "getContent"
  /\ IF ~editor
     THEN methods' = <<>> /\ returned' = Str(0)
     ELSE methods' = <<"getDocument">> /\ returned' \in {Str(h) : h \in Html}
  /\ called' = 0
  /\ UNCHANGED component

EditorNext ==
  \/ \E v \in Html, cb \in Callbacks : mount(v, cb) /\ UNCHANGED <<vars, source>>
  \/ \E v \in Html, cb \in Callbacks : render(v, cb) /\ UNCHANGED <<vars, source>>
  \/ runEffect /\ UNCHANGED <<vars, source>>
  \/ load /\ UNCHANGED <<vars, source>>
  \/ loadFunc /\ UNCHANGED <<vars, source>>
  \/ contentchange /\ UNCHANGED <<vars, source>>
  \/ \E b \in BOOLEAN : appendContent(b) /\ UNCHANGED <<vars, source>>
  \/ \E h \in Html : setContent(h) /\ UNCHANGED <<vars, source>>
  \/ isEmpty /\ UNCHANGED <<vars, source>>
  \/ getContent /\ UNCHANGED <<vars, source>>

\* ---------------------------------------------------------------- specifications
Init ==
  /\ iframe = FALSE
  /\ frames = 0
  /\ listeners = 0
  /\ timer = "none"
  /\ initPromise = NoPromise
  /\ sendMessageRef = FALSE
  /\ id = 0
  /\ resolveCache = <<>>
  /\ promises = <<>>
  /\ invoked = <<>>
  /\ posted = <<>>
  /\ event = NoEvent
  /\ pc = [c \in Callers |-> "idle"]
  /\ op = [c \in Callers |-> "none"]
  /\ wait = [c \in Callers |-> NoWait]
  /\ isReady = [c \in Callers |-> None]
  /\ res = [c \in Callers |-> None]
  /\ result = [c \in Callers |-> None]
  /\ source = NoSource
  /\ Unmounted

\* the steps of the bridge leave the editor component alone
Bridge == UNCHANGED <<source, component, observed>>

Next ==
  \/ \E c \in Callers : init(c) /\ Bridge
  \/ \E c \in Callers : initReturn(c) /\ Bridge
  \/ \E c \in Callers : startOCR(c) /\ Bridge
  \/ \E c \in Callers : startOCRCheckReady(c) /\ Bridge
  \/ \E c \in Callers : startOCRRequest(c) /\ Bridge
  \/ \E c \in Callers : startOCRReturn(c) /\ Bridge
  \/ timeout /\ Bridge
  \/ \E e \in Envelopes : messageFunc(e) /\ Bridge

Spec == Init /\ [][Next]_allvars

EditorSpec == Init /\ [][EditorNext]_allvars



\* ---------------------------------------------------------------- result processing
\* The states right after the response to a "startOcr" request has been
\* dispatched, for every payload the response can carry: an absent list, a
\* value that is no list, and every list of at most MaxRegions entries.
Coords == {Num(n) : n \in 0..MaxCoord} \cup {NaN, Infinity}
Items == [x : Coords, y : Coords] \cup {Null}
Lists == UNION {[1..n -> Items] : n \in 0..MaxRegions}
NormPayloads == {Arr(l) : l \in Lists} \cup {Undefined, Bool(FALSE), Bool(TRUE)}

NormInit ==
  \E d \in NormPayloads :
    LET ready == [key |-> key, requestId |-> 1, type |-> "result", data |-> Bool(TRUE)]
        e == [key |-> key, requestId |-> 2, type |-> "result", data |-> d]
    IN
    /\ iframe = TRUE /\ frames = 1 /\ listeners = 1
    /\ timer = "armed"
    /\ initPromise = Bool(TRUE)
    /\ sendMessageRef = TRUE
    /\ id = 2
    /\ resolveCache = <<>>
    /\ promises =
         << [caller |-> 1, action |-> "isWebOcrReady", requestId |-> 1, value |-> Obj(ready)],
            [caller |-> 1, action |-> "startOcr", requestId |-> 2, value |-> Obj(e)] >>
    /\ invoked = <<1, 1>>
    /\ posted = << [key |-> key, requestId |-> 1, action |-> "isWebOcrReady"],
                   [key |-> key, requestId |-> 2, action |-> "startOcr"] >>
    /\ event = e
    /\ pc = [c \in Callers |-> IF c = 1 THEN "awaitOcr" ELSE "idle"]
    /\ op = [c \in Callers |-> IF c = 1 THEN "startOCR" ELSE "none"]
    /\ wait = [c \in Callers |-> IF c = 1 THEN PromiseWait(2) ELSE NoWait]
    /\ isReady = [c \in Callers |-> IF c = 1 THEN Obj(ready) ELSE None]
    /\ res = [c \in Callers |-> None]
    /\ result = [c \in Callers |-> None]
    /\ source = NoSource
    /\ Unmounted

NormNext == \E c \in Callers : startOCRReturn(c) /\ Bridge

NormSpec == NormInit /\ [][NormNext]_allvars


\* ---------------------------------------------------------------- scheduling
\* The calls made while the frame behaves as the proxy page does: it posts
\* ready messages and responses under the bridge's key, for every request id
\* these calls can allocate.
LiveCallers == 1..NLive
LiveIds == 1..(2 * NLive)
LiveEnvelopes ==
  [key : {key}, requestId : LiveIds, type : {"result"}, data : Payloads]
  \cup [key : {key}, requestId : {0}, type : {"ocr-ready"}, data : {Bool(TRUE)}]

\* the frame answers the pending request k
Answer(k) ==
  /\ k \in DOMAIN resolveCache
  /\ \E e \in LiveEnvelopes : e.requestId = k /\ messageFunc(e)

\* a continuation of some call that can run
Continue ==
  \E c \in LiveCallers :
    \/ initReturn(c)
    \/ startOCRCheckReady(c)
    \/ startOCRRequest(c)
    \/ startOCRReturn(c)

LiveNext ==
  \/ \E c \in LiveCallers : init(c) /\ Bridge
  \/ \E c \in LiveCallers : initReturn(c) /\ Bridge
  \/ \E c \in LiveCallers : startOCR(c) /\ Bridge
  \/ \E c \in LiveCallers : startOCRCheckReady(c) /\ Bridge
  \/ \E c \in LiveCallers : startOCRRequest(c) /\ Bridge
  \/ \E c \in LiveCallers : startOCRReturn(c) /\ Bridge
  \/ timeout /\ Bridge
  \/ \E e \in LiveEnvelopes : messageFunc(e) /\ Bridge

\* The event loop keeps running the continuations that can run and fires the
\* armed timer; the frame keeps answering the requests that stay pending.
Fairness ==
  /\ WF_vars(timeout)
  /\ WF_vars(Continue)
  /\ WF_vars(\E k \in LiveIds : Answer(k))

LiveSpec == Init /\ [][LiveNext]_allvars /\ Fairness

\* ---------------------------------------------------------------- senders
\* The windows that can post a message to the page: the OCR frame, the page
\* itself, any other frame. window's 'message' listener gets them all.
Senders == {"iframe", "top", "other"}

\* a handler that looks at event.source ignores what the frame did not post
dispatchM(s, e) ==
  /\ source' = s
  /\ IF s = "iframe"
     THEN messageFunc(e)
     ELSE /\ listeners > 0
          /\ TaskBoundary
          /\ event' = e
          /\ UNCHANGED <<bridge, table, pc, op, wait, locals>>
\* the message event of sender s with data e is given to messageFunc
dispatch(s, e) ==
  /\ source' = s
  /\ messageFunc(e)

\* a step that is not the dispatch of a message
Unsent == source' = NoSource /\ UNCHANGED <<component, observed>>

SenderNext ==
  \/ \E c \in LiveCallers : init(c) /\ Unsent
  \/ \E c \in LiveCallers : initReturn(c) /\ Unsent
  \/ \E c \in LiveCallers : startOCR(c) /\ Unsent
  \/ \E c \in LiveCallers : startOCRCheckReady(c) /\ Unsent
  \/ \E c \in LiveCallers : startOCRRequest(c) /\ Unsent
  \/ \E c \in LiveCallers : startOCRReturn(c) /\ Unsent
  \/ timeout /\ Unsent
  \/ \E s \in Senders, e \in Envelopes :
       dispatch(s, e) /\ UNCHANGED <<component, observed>>

SenderSpec == Init /\ [][SenderNext]_allvars

\* ---------------------------------------------------------------- properties
\* call c calls sendMessage in this step
SendStep(c) ==
  \/ pc[c] = "awaitInit" /\ pc'[c] = "awaitIsReady"
  \/ pc[c] = "awaitIsReady" /\ pc'[c] = "awaitOcr"

IsEvent(e) == e # NoEvent
ReadyEvent(e) == IsEvent(e) /\ e.key = key /\ e.type = "ocr-ready"

\* C1: every settled request promise holds an accepted envelope whose requestId
\* is the id allocated for that request, whatever the order of the responses.
C1_MatchedById ==
  \A p \in DOMAIN promises :
    promises[p].value # Pending =>
      /\ promises[p].value.t = "object"
      /\ promises[p].value.o.key = key
      /\ promises[p].value.o.requestId = promises[p].requestId

\* two requests in flight, the later one answered first
C1_Witness ==
  \E p, q \in DOMAIN promises :
    /\ p < q
    /\ promises[p].value = Pending
    /\ promises[q].value # Pending
    /\ promises[q].value.o.requestId = promises[q].requestId

\* C2 (as claimed): a "startOcr" request exists only for a call whose
\* "isWebOcrReady" reply carried a truthy readiness flag.
C2_Original ==
  \A p \in DOMAIN promises :
    promises[p].action = "startOcr" =>
      LET r == isReady[promises[p].caller] IN
      r.t = "object" /\ Truthy(r.o.data)

\* C3 (as claimed): once init has resolved false, every sendMessage call
\* returns undefined and posts nothing.
C3_Original ==
  [][initPromise = Bool(FALSE) =>
       \A c \in Callers :
         SendStep(c) => (wait'[c] = Value(Undefined) /\ posted' = posted)]_vars

\* C3 (amended): once init has resolved false it stays false, and as long as no
\* ready envelope has installed the transport every sendMessage call returns
\* undefined, allocates no id, records nothing and posts nothing.
C3_Amended ==
  [][(initPromise = Bool(FALSE) /\ ~sendMessageRef) =>
       /\ initPromise' = Bool(FALSE)
       /\ id' = id /\ posted' = posted /\ resolveCache' = resolveCache
       /\ \A c \in Callers : SendStep(c) => wait'[c] = Value(Undefined)]_vars

\* the call that created the frame resumed after the timeout and got undefined
C3_Witness ==
  /\ initPromise = Bool(FALSE) /\ ~sendMessageRef /\ timer = "fired"
  /\ \E c \in Callers :
       /\ op[c] = "startOCR" /\ pc[c] = "awaitIsReady"
       /\ wait[c] = Value(Undefined)
       /\ \A d \in Callers \ {c} : pc[d] = "idle"

\* C4: an entry leaves resolveCache only in the dispatch of an accepted envelope
\* with its requestId, that dispatch invokes its callback, a removed entry never
\* comes back, no callback is invoked twice, and an envelope whose id is not
\* pending invokes nothing and leaves the table as it is.
C4_RemovedOnce ==
  [][/\ \A p \in DOMAIN promises :
          LET k == promises[p].requestId IN
          /\ invoked'[p] <= 1
          /\ (k \in DOMAIN resolveCache /\ k \notin DOMAIN resolveCache') =>
               /\ IsEvent(event') /\ event'.key = key /\ event'.requestId = k
               /\ invoked'[p] = invoked[p] + 1
          /\ invoked'[p] # invoked[p] =>
               (k \in DOMAIN resolveCache /\ k \notin DOMAIN resolveCache')
          /\ k \notin DOMAIN resolveCache => k \notin DOMAIN resolveCache'
     /\ (IsEvent(event') /\ event'.requestId \notin DOMAIN resolveCache) =>
          (invoked' = invoked /\ resolveCache' = resolveCache /\ promises' = promises)
    ]_vars

\* a second accepted envelope with the id of a request that was already answered
C4_Witness ==
  \E p \in DOMAIN promises :
    /\ IsEvent(event) /\ event.key = key
    /\ event.requestId = promises[p].requestId
    /\ promises[p].value # Pending
    /\ promises[p].value.o # event
    /\ invoked[p] = 1

\* C5: at most one iframe is ever created and at most one listener registered.
C5_SingleFrame == frames <= 1 /\ listeners <= 1

\* every call has been made, one of them returned from init at once while the
\* first init is still waiting for ready
C5_Witness ==
  /\ frames = 1 /\ listeners = 1 /\ initPromise = Pending
  /\ \A c \in Callers : pc[c] # "idle"
  /\ \E c \in Callers : pc[c] = "awaitInit" /\ wait[c] = Value(Undefined)

\* C6: the dispatch of a message whose key is not "ocr-message" changes nothing
\* of the bridge, the table or any call.
C6_ForeignKeyIgnored ==
  [][(IsEvent(event') /\ event'.key # key) =>
       UNCHANGED <<bridge, table, pc, op, wait, locals>>]_vars

\* a foreign message of type ready that carries the id of a pending request
C6_Witness ==
  /\ IsEvent(event) /\ event.key # key /\ event.type = "ocr-ready"
  /\ event.requestId \in DOMAIN resolveCache

\* C7: the ids of the requests are strictly increasing in allocation order, none
\* exceeds the counter, every pending request still owns the table entry under
\* its id, and every entry belongs to the request with that id.
C7_UniqueIds ==
  /\ \A p \in DOMAIN promises : promises[p].requestId <= id
  /\ \A p, q \in DOMAIN promises :
       p < q => promises[p].requestId < promises[q].requestId
  /\ \A p \in DOMAIN promises :
       promises[p].value = Pending =>
         /\ promises[p].requestId \in DOMAIN resolveCache
         /\ resolveCache[promises[p].requestId] = p
  /\ \A k \in DOMAIN resolveCache : promises[resolveCache[k]].requestId = k

\* a third request allocated while two are pending
C7_Witness == Len(promises) >= 3 /\ Cardinality(DOMAIN resolveCache) >= 2

\* C8: a sendMessage call made while the transport is not installed returns
\* undefined, consumes no id, adds no entry and posts nothing.
C8_NoTransportNoEffect ==
  [][\A c \in Callers :
       (~sendMessageRef /\ SendStep(c)) =>
         /\ wait'[c] = Value(Undefined)
         /\ id' = id /\ resolveCache' = resolveCache
         /\ promises' = promises /\ posted' = posted]_vars

\* a call that overlapped with the pending init got undefined
C8_Witness ==
  /\ ~sendMessageRef /\ initPromise = Pending /\ id = 0 /\ posted = <<>>
  /\ \E c \in Callers : pc[c] = "awaitIsReady" /\ wait[c] = Value(Undefined)

\* C9: the init promise is settled by the first of the two events, true by an
\* accepted ready envelope and false by the timer, by nothing else, and once
\* settled it never changes; the caller of init receives that value.
C9_SettlesOnce ==
  [][/\ initPromise.t \notin {"nopromise", "pending"} => initPromise' = initPromise
     /\ (initPromise = Pending /\ timer = "armed" /\ timer' = "fired") =>
          initPromise' = Bool(FALSE)
     /\ (initPromise = Pending /\ ReadyEvent(event')) => initPromise' = Bool(TRUE)
     /\ (initPromise = Pending /\ initPromise' # Pending) =>
          ((timer = "armed" /\ timer' = "fired") \/ ReadyEvent(event'))
     /\ \A c \in Callers :
          (op[c] = "init" /\ wait[c] = InitWait /\ pc'[c] = "done") =>
            result'[c] = initPromise
    ]_vars

\* ready came first, the timer fired later, the caller of init got true
C9_Witness ==
  /\ initPromise = Bool(TRUE) /\ timer = "fired"
  /\ \E c \in Callers : op[c] = "init" /\ result[c] = Bool(TRUE)

\* C10: a startOCR call whose awaited isWebOcrReady result is falsy has returned
\* the empty sequence and has made no "startOcr" request.
C10_NotReadyEmpty ==
  \A c \in Callers :
    (op[c] = "startOCR" /\ isReady[c] # None /\ ~Truthy(isReady[c])) =>
      /\ pc[c] = "done"
      /\ result[c] = Arr(<<>>)
      /\ \A p \in DOMAIN promises :
           ~(promises[p].caller = c /\ promises[p].action = "startOcr")
      /\ \A i \in DOMAIN posted : posted[i].action = "startOcr" =>
           promises[i].caller # c

\* the transport was never installed: isWebOcrReady gave undefined
C10_Witness ==
  /\ ~sendMessageRef
  /\ \E c \in Callers :
       op[c] = "startOCR" /\ isReady[c] = Undefined /\ result[c] = Arr(<<>>)

\* the bridge's phase: 0 Uninitialized, 1 Initializing, 2 Ready
Phase == IF ~iframe THEN 0 ELSE IF ~sendMessageRef THEN 1 ELSE 2

\* C11: the phase never decreases and is entered in order, the iframe field and
\* the transport stay set once set, no second frame replaces the first, and the
\* dispatch of an accepted envelope (a ready envelope included) keeps every
\* pending entry other than the one with its own requestId, with its callback.
C11_ForwardOnly ==
  [][/\ Phase' >= Phase /\ Phase' <= Phase + 1
     /\ iframe => (iframe' /\ frames' = frames)
     /\ sendMessageRef => sendMessageRef'
     /\ ReadyEvent(event') => sendMessageRef'
     /\ IsEvent(event') =>
          /\ \A k \in DOMAIN resolveCache \ {event'.requestId} :
               k \in DOMAIN resolveCache' /\ resolveCache'[k] = resolveCache[k]
          /\ \A p \in DOMAIN promises :
               (promises[p].value = Pending /\ promises[p].requestId # event'.requestId)
                 => promises'[p].value = Pending
    ]_vars

\* a further ready envelope arrived while the transport was installed and a
\* request was pending, and the request is still pending
C11_Witness ==
  /\ ReadyEvent(event) /\ sendMessageRef /\ Len(posted) >= 1
  /\ \E k \in DOMAIN resolveCache :
       k # event.requestId /\ promises[resolveCache[k]].value = Pending

\* the payload of the "startOcr" response call c processed
Input(c) == OcrResult(res[c])
Count(s, r) == Cardinality({i \in DOMAIN s : s[i] = r})
\* a <= b on numbers that are not NaN
Leq(a, b) ==
  \/ a = b
  \/ IsFinite(a) /\ IsFinite(b) /\ a.n < b.n
  \/ a # b /\ (a = NegInfinity \/ b = Infinity)
\* s is in ascending order of y and, for equal y, of x
Ordered(s) ==
  \A i, j \in DOMAIN s :
    i < j => /\ Leq(s[i].y, s[j].y)
             /\ s[i].y = s[j].y => Leq(s[i].x, s[j].x)
\* startOCR returned exactly the regions of the input that satisfy Keep, as
\* often as they occur in it, in reading order
Returned(c, Keep(_)) ==
  LET in == Input(c).a
      out == result[c].a IN
  /\ result[c].t = "array"
  /\ \A i \in DOMAIN out : Keep(out[i])
  /\ \A i \in DOMAIN in : Keep(in[i]) => Count(out, in[i]) = Count(in, in[i])
  /\ Len(out) = Cardinality({i \in DOMAIN in : Keep(in[i])})
  /\ Ordered(out)
\* a region list without null entries was processed by call c
Processed(c) ==
  pc[c] = "done" /\ res[c] # None /\ Input(c).t = "array" /\ ~Throws(Input(c).a)

FiniteXY(r) == IsFinite(r.x) /\ IsFinite(r.y)
NotNaNXY(r) == r.x # NaN /\ r.y # NaN

\* C12 (as claimed): startOCR returns exactly the regions whose x and y are both
\* finite numbers, each as often as in the input, by ascending y, then x.
C12_Original == \A c \in Callers : Processed(c) => Returned(c, FiniteXY)

\* C12 (amended): startOCR returns exactly the regions whose x and y are both
\* not NaN (an infinite coordinate is kept; an absent list counts as empty),
\* each as often as in the input, by ascending y and, for equal y, ascending x.
C12_Amended == \A c \in Callers : Processed(c) => Returned(c, NotNaNXY)

\* a list of three with one NaN region dropped and the other two reordered
C12_Witness ==
  \E c \in Callers :
    /\ Processed(c) /\ Len(Input(c).a) = 3
    /\ Len(result[c].a) = 2
    /\ result[c].a[1] # result[c].a[2]
    /\ \E i, j \in 1..3 : i < j /\ Input(c).a[i] = result[c].a[2]
                                /\ Input(c).a[j] = result[c].a[1]

\* the processing of the response fails: data is truthy and is no array, or
\* holds a null entry
Fails(r) ==
  r.t = "object" /\ Truthy(r.o.data) /\
    (r.o.data.t # "array" \/ Throws(r.o.data.a))

\* C13: whatever the "startOcr" response carries, startOCR returns normally: with
\* undefined when the processing fails, with an array otherwise, and the step
\* leaves the bridge and the correlation table as they are.
C13_NeverRaises ==
  [][\A c \in Callers :
       (pc[c] = "awaitOcr" /\ pc'[c] = "done") =>
         /\ result'[c].t \in {"array", "undefined"}
         /\ Fails(Awaited(wait[c])) <=> result'[c] = Undefined
         /\ UNCHANGED <<bridge, table>>]_vars

\* a response whose list holds a null entry was processed: undefined returned
C13_Witness ==
  \E c \in Callers :
    /\ pc[c] = "done" /\ result[c] = Undefined
    /\ res[c].o.data.t = "array" /\ Throws(res[c].o.data.a)
    /\ sendMessageRef /\ resolveCache = <<>>

\* C14 (as claimed): a startOCR call is at or past its readiness check only
\* when initialization has finished: a ready envelope was accepted or the
\* timer has fired.
C14_Original ==
  \A c \in Callers :
    (op[c] = "startOCR" /\ pc[c] \in {"awaitIsReady", "awaitOcr", "done"}) =>
      (sendMessageRef \/ timer = "fired")

\* C15: the init promise, once created, is eventually settled, with or without
\* any envelope; every startOCR call eventually returns when the frame answers
\* the requests posted to it; and a request promise leaves the pending state
\* and its entry leaves the table only in the dispatch of an accepted envelope
\* that carries its id.
C15_Terminates ==
  /\ (initPromise = Pending) ~> (initPromise # Pending)
  /\ \A c \in Callers : (op[c] = "startOCR") ~> (pc[c] = "done")
  /\ [][\A p \in DOMAIN promises :
          \/ promises[p].value = Pending /\ promises'[p].value # Pending
          \/ /\ promises[p].requestId \in DOMAIN resolveCache
             /\ promises[p].requestId \notin DOMAIN resolveCache'
          => /\ IsEvent(event') /\ event'.key = key
             /\ event'.requestId = promises[p].requestId]_vars

\* every call made was a startOCR call, posted two requests, had both answered
\* and returned
C15_Witness ==
  /\ \A c \in LiveCallers : op[c] = "startOCR" /\ pc[c] = "done"
  /\ Len(promises) = 2 * NLive
  /\ \A p \in DOMAIN promises : promises[p].value # Pending

\* C16: the step a message takes is the one its key, requestId, type and data
\* determine from the state before it, whichever window sent it; so an accepted
\* envelope of any sender settles and removes the pending request with its id
\* and a ready envelope of any sender installs the transport.
C16_SenderIndependent ==
  [][IsEvent(event') =>
       /\ source' \in Senders
       /\ messageFunc(event')
       /\ (Accepted(event') /\ event'.requestId \in DOMAIN resolveCache) =>
            /\ event'.requestId \notin DOMAIN resolveCache'
            /\ \E p \in DOMAIN promises :
                 /\ promises[p].requestId = event'.requestId
                 /\ promises'[p].value = Obj(event')
       /\ (Accepted(event') /\ event'.type = "ocr-ready") => sendMessageRef'
    ]_allvars

\* a window other than the frame has answered a pending request
C16_Witness ==
  /\ source \in Senders \ {"iframe"}
  /\ IsEvent(event)
  /\ \E p \in DOMAIN promises : promises[p].value = Obj(event)

\* C17: while the editor state is null (in particular while the iframe has not
\* loaded or loadLakeEditor has not finished) appendContent and setContent call
\* no method of the third-party editor, isEmpty returns true and getContent
\* returns ''; the editor state becomes non-null only after the load event and
\* the completion of loadLakeEditor, and never becomes null again.
C17_Gated ==
  /\ [][(~editor /\ entry' \in {"appendContent", "setContent"}) =>
          methods' = <<>> /\ setDocument' = setDocument]_allvars
  /\ [][(~editor /\ entry' = "isEmpty") =>
          methods' = <<>> /\ returned' = Bool(TRUE)]_allvars
  /\ [][(~editor /\ entry' = "getContent") =>
          methods' = <<>> /\ returned' = Str(0)]_allvars
  /\ [][(~editor /\ editor') =>
          frame = "loaded" /\ lake = "done" /\ newEditor]_allvars
  /\ [][editor => editor']_allvars

\* setContent was called after the load event while loadLakeEditor was pending
C17_Witness ==
  /\ frame = "loaded"
  /\ lake = "pending"
  /\ ~newEditor
  /\ entry = "setContent"
  /\ methods = <<>>

\* the effect f of the committed render has not run yet
Scheduled(f) == \E i \in DOMAIN effects : effects[i] = f

\* C18 as stated: once the editor exists and the effects of the committed render
\* have run, the last setDocument call carries the value prop.
C18_Original ==
  (editor /\ effects = <<>>) =>
    (setDocument # NoDocument /\ setDocument.html = value)

\* C18, amended: the render that commits the editor and every later render that
\* changes value schedule the value effect; the effect calls setDocument with
\* the value of its render; so once it has run a setDocument call has been made,
\* and the last one, if the effect made it and not setContent, carries value.
C18_Amended ==
  /\ [][(editor' /\ (~editor \/ value' # value)) => Scheduled("setDocument")']_allvars
  /\ [][(editor /\ Scheduled("setDocument") /\ ~Scheduled("setDocument")') =>
          /\ methods' = <<"setDocument">>
          /\ setDocument' = [html |-> value, by |-> "effect"]]_allvars
  /\ [](editor /\ ~Scheduled("setDocument") =>
          /\ setDocument # NoDocument
          /\ setDocument.by = "effect" => setDocument.html = value)

\* a non-empty value given at the first render, before the editor existed, has
\* reached setDocument and no render has changed value since
C18_Witness ==
  /\ editor
  /\ effects = <<>>
  /\ value # 0
  /\ methods = <<"setDocument">>
  /\ setDocument = [html |-> value, by |-> "effect"]

\* C19 as stated: a contentchange event invokes the onChange of the committed
\* render, in every interleaving of renders, effects, load and events.
C19_Original ==
  [][entry' = "contentchange" => called' = onChange]_allvars

====
